---- MODULE Spec2Model ----
(***************************************************************************)
(* IntelliVest front end (src/src/IntellivestFrontEnd.jsx): the            *)
(* FinancialAssistant component, its three action handlers (getSummary,    *)
(* askQuestion, handlePortfolioUpload), the fetchData helper and the       *)
(* controls that trigger them.                                             *)
(*                                                                         *)
(* An async handler is one action per synchronous run: the part up to the  *)
(* first await (or up to reader.readAsText), then one action per           *)
(* continuation (fetch settled, reader.onload, reader.onerror).            *)
(*                                                                         *)
(* Two specifications share the handlers:                                  *)
(*   Spec          the component as rendered: every input and button has   *)
(*                 disabled={loading}, so events arrive only while         *)
(*                 loading is false;                                       *)
(*   SpecHandlers  the handlers invoked directly, whatever loading is      *)
(*                 (the handlers themselves never test loading).           *)
(***************************************************************************)
EXTENDS Bags, FiniteSets, Integers, Sequences, TLC

VARIABLES
    ticker,             \* useState('')    line 47
    summary,            \* useState('')    line 48
    question,           \* useState('')    line 49
    answer,             \* useState('')    line 50
    portfolioFile,      \* useState(null)  line 51
    portfolioAnalysis,  \* useState('')    line 52
    loading,            \* useState(false) line 53
    error,              \* useState(null)  line 54
    tasks               \* bag of pending asynchronous operations (fetches, file reads)

vars == <<ticker, summary, question, answer, portfolioFile, portfolioAnalysis,
          loading, error, tasks>>

inputs  == <<ticker, question, portfolioFile>>
results == <<summary, answer, portfolioAnalysis>>

-----------------------------------------------------------------------------
(* JavaScript values.  null and undefined are sentinels distinct from every *)
(* string the model uses.                                                   *)

NULL      == "<null>"
UNDEFINED == "<undefined>"

\* JavaScript truthiness of a string-or-null-or-undefined value
Truthy(v) == v \notin {"", NULL, UNDEFINED}

\* a || b
OrElse(a, b) == IF Truthy(a) THEN a ELSE b

-----------------------------------------------------------------------------
(* Bounds and input domains *)

MaxInFlight == 2

Tickers   == {"", " ", "AAPL"}
Questions == {"", " ", "What is a bond?"}
Files     == {"portfolio.csv", "empty.csv"}
Statuses  == {200, 201, 404, 500}
TransportMessages == {"", "Failed to fetch"}

\* the text readAsText yields for a file
FileContent(f) == IF f = "empty.csv" THEN "" ELSE "AAPL,10"

Actions == {"summary", "question", "portfolio"}

\* the payload field each action reads
FieldOf(a) == CASE a = "summary"   -> "summary"
                [] a = "question"  -> "answer"
                [] a = "portfolio" -> "analysis"

\* (the source's ticker message ends with a chart emoji, left out here)
GuardMessage(a) == CASE a = "summary"   -> "Please enter a stock ticker"
                     [] a = "question"  -> "Please enter a question"
                     [] a = "portfolio" -> "Please upload a portfolio file"

\* the values the backend may put in an action's field
FieldValues(a) == CASE a = "summary"   -> {"", "Apple Inc. overview..."}
                    [] a = "question"  -> {"", "A bond is a loan."}
                    [] a = "portfolio" -> {"", "Diversification score: 7/10"}

FallbackMessage(a) == CASE a = "summary"   -> "Failed to fetch summary"
                        [] a = "question"  -> "Failed to get answer"
                        [] a = "portfolio" -> "Failed to analyze portfolio"

-----------------------------------------------------------------------------
(* fetchData *)

API_BASE_URL == "/intellivest-back-end.py"

\* JSON.stringify of the two one-field bodies the handlers send (the input
\* domains hold no character that needs escaping)
Stringify(key, value) == "{\"" \o key \o "\":\"" \o value \o "\"}"

\* the fetch() call of fetchData: url, config.method, config.body
\* (body is the stringified object, or NULL when the handler passes none)
FetchCall(endpoint, method, body) ==
    [url |-> API_BASE_URL \o endpoint, method |-> method, body |-> body]

NoCall == [url |-> NULL, method |-> NULL, body |-> NULL]

\* response.ok taken to mean "no server error"
ResponseOk_Below500(status) == status >= 200 /\ status < 500

\* response.ok
ResponseOk(status) == status >= 200 /\ status <= 299

\* A decoded JSON value: an object seen through the three fields the handlers
\* read (an absent field reads as undefined), or null.
JsonObject(a, v) == [type |-> "object",
                     fields |-> [f \in {"summary", "answer", "analysis"} |->
                                    IF f = FieldOf(a) THEN v ELSE UNDEFINED]]
JsonNull == [type |-> "null",
             fields |-> [f \in {"summary", "answer", "analysis"} |-> UNDEFINED]]

\* What the network can do with one call of action a: reject the fetch
\* promise, or answer with a status and a body that is malformed or decodes
\* to null or to an object.
Responses(a) ==
    [kind : {"reject"}, message : TransportMessages, status : {0},
     wellFormed : {FALSE}, json : {JsonNull}]
    \cup
    [kind : {"response"}, message : {""}, status : Statuses,
     wellFormed : {FALSE}, json : {JsonNull}]
    \cup
    [kind : {"response"}, message : {""}, status : Statuses,
     wellFormed : {TRUE},
     json : {JsonNull} \cup {JsonObject(a, v) : v \in FieldValues(a) \cup {UNDEFINED}}]

JsonSyntaxMessage == "Unexpected token < in JSON at position 0"

Threw(m)    == [threw |-> TRUE,  message |-> m,  data |-> JsonNull]
Returned(d) == [threw |-> FALSE, message |-> "", data |-> d]

HttpErrorMessage(status) == "HTTP Error! Status: " \o ToString(status)

\* fetchData with a catch block that logs and does not re-throw: the caller
\* gets no data
fetchData_NoRethrow(r) ==
    IF r.kind = "reject" THEN Returned(JsonNull)
    ELSE IF ~ResponseOk(r.status) THEN Returned(JsonNull)
    ELSE IF ~r.wellFormed THEN Returned(JsonNull)
    ELSE Returned(r.json)

\* The outcome of fetchData once fetch() has settled with response r:
\* the error it re-throws, or the decoded body it returns.
fetchData(r) ==
    IF r.kind = "reject" THEN Threw(r.message)
    ELSE IF ~ResponseOk(r.status) THEN Threw(HttpErrorMessage(r.status))
    ELSE IF ~r.wellFormed THEN Threw(JsonSyntaxMessage)
    ELSE Returned(r.json)

\* message of the TypeError thrown by data.<field> when data is null
NullReadMessage(a) ==
    "Cannot read properties of null (reading '" \o FieldOf(a) \o "')"

-----------------------------------------------------------------------------
(* Pending asynchronous operations *)

FetchTask(a, call) == [action |-> a, stage |-> "fetch", call |-> call, file |-> NULL]
ReadTask(f)        == [action |-> "portfolio", stage |-> "read", call |-> NoCall, file |-> f]

Add(t)    == tasks (+) SetToBag({t})
Remove(t) == tasks (-) SetToBag({t})
Pending   == BagToSet(tasks)
InFlight  == BagCardinality(tasks)

-----------------------------------------------------------------------------
Init ==
    /\ ticker = ""
    /\ summary = ""
    /\ question = ""
    /\ answer = ""
    /\ portfolioFile = NULL
    /\ portfolioAnalysis = ""
    /\ loading = FALSE
    /\ error = NULL
    /\ tasks = EmptyBag

-----------------------------------------------------------------------------
(* Input-change handlers *)

setTicker(v) ==
    /\ ticker' = v
    /\ UNCHANGED <<summary, question, answer, portfolioFile, portfolioAnalysis,
                   loading, error, tasks>>

setQuestion(v) ==
    /\ question' = v
    /\ UNCHANGED <<ticker, summary, answer, portfolioFile, portfolioAnalysis,
                   loading, error, tasks>>

\* files is the selected file, or NULL when the dialog yields no file
handleFileChange(file) ==
    /\ portfolioFile' = IF file # NULL THEN file ELSE portfolioFile
    /\ UNCHANGED <<ticker, summary, question, answer, portfolioAnalysis,
                   loading, error, tasks>>

-----------------------------------------------------------------------------
(* Action handlers: the synchronous part *)

\* getSummary without its setSummary('')
getSummary_KeepsSummary ==
    IF ~Truthy(ticker)
    THEN /\ error' = GuardMessage("summary")
         /\ UNCHANGED <<inputs, results, loading, tasks>>
    ELSE /\ InFlight < MaxInFlight
         /\ loading' = TRUE
         /\ error' = NULL
         /\ tasks' = Add(FetchTask("summary",
                            FetchCall("/summary/" \o ticker, "GET", NULL)))
         /\ UNCHANGED <<inputs, results>>

\* getSummary aborting the requests still pending before it sends its own
getSummary_CancelsPending ==
    IF ~Truthy(ticker)
    THEN /\ error' = GuardMessage("summary")
         /\ UNCHANGED <<inputs, results, loading, tasks>>
    ELSE /\ InFlight < MaxInFlight
         /\ loading' = TRUE
         /\ error' = NULL
         /\ summary' = ""
         /\ tasks' = SetToBag({FetchTask("summary",
                            FetchCall("/summary/" \o ticker, "GET", NULL))})
         /\ UNCHANGED <<inputs, answer, portfolioAnalysis>>

getSummary ==
    IF ~Truthy(ticker)
    THEN /\ error' = GuardMessage("summary")
         /\ UNCHANGED <<inputs, results, loading, tasks>>
    ELSE /\ InFlight < MaxInFlight
         /\ loading' = TRUE
         /\ error' = NULL
         /\ summary' = ""
         /\ tasks' = Add(FetchTask("summary",
                            FetchCall("/summary/" \o ticker, "GET", NULL)))
         /\ UNCHANGED <<inputs, answer, portfolioAnalysis>>

\* askQuestion without its setError(null)
askQuestion_KeepsError ==
    IF ~Truthy(question)
    THEN /\ error' = GuardMessage("question")
         /\ UNCHANGED <<inputs, results, loading, tasks>>
    ELSE /\ InFlight < MaxInFlight
         /\ loading' = TRUE
         /\ answer' = ""
         /\ tasks' = Add(FetchTask("question",
                            FetchCall("/question", "POST",
                                      Stringify("question", question))))
         /\ UNCHANGED <<inputs, summary, portfolioAnalysis, error>>

\* askQuestion resetting the shown answer before it tests its guard
askQuestion_ClearsAnswerFirst ==
    IF ~Truthy(question)
    THEN /\ error' = GuardMessage("question")
         /\ answer' = ""
         /\ UNCHANGED <<inputs, summary, portfolioAnalysis, loading, tasks>>
    ELSE /\ InFlight < MaxInFlight
         /\ loading' = TRUE
         /\ error' = NULL
         /\ answer' = ""
         /\ tasks' = Add(FetchTask("question",
                            FetchCall("/question", "POST",
                                      Stringify("question", question))))
         /\ UNCHANGED <<inputs, summary, portfolioAnalysis>>

askQuestion ==
    IF ~Truthy(question)
    THEN /\ error' = GuardMessage("question")
         /\ UNCHANGED <<inputs, results, loading, tasks>>
    ELSE /\ InFlight < MaxInFlight
         /\ loading' = TRUE
         /\ error' = NULL
         /\ answer' = ""
         /\ tasks' = Add(FetchTask("question",
                            FetchCall("/question", "POST",
                                      Stringify("question", question))))
         /\ UNCHANGED <<inputs, summary, portfolioAnalysis>>

\* handlePortfolioUpload without its setPortfolioAnalysis('')
handlePortfolioUpload_KeepsAnalysis ==
    IF ~Truthy(portfolioFile)
    THEN /\ error' = GuardMessage("portfolio")
         /\ UNCHANGED <<inputs, results, loading, tasks>>
    ELSE /\ InFlight < MaxInFlight
         /\ loading' = TRUE
         /\ error' = NULL
         /\ tasks' = Add(ReadTask(portfolioFile))
         /\ UNCHANGED <<inputs, results>>

handlePortfolioUpload ==
    IF ~Truthy(portfolioFile)
    THEN /\ error' = GuardMessage("portfolio")
         /\ UNCHANGED <<inputs, results, loading, tasks>>
    ELSE /\ InFlight < MaxInFlight
         /\ loading' = TRUE
         /\ error' = NULL
         /\ portfolioAnalysis' = ""
         /\ tasks' = Add(ReadTask(portfolioFile))
         /\ UNCHANGED <<inputs, summary, answer>>

-----------------------------------------------------------------------------
(* Continuations *)

\* every handler reading data.summary
ReadField_AlwaysSummary(a, data) == data.fields["summary"]

\* data.summary, data.answer, data.analysis
ReadField(a, data) == data.fields[FieldOf(a)]

\* summary, answer, portfolioAnalysis
Result(a) == CASE a = "summary"   -> summary
               [] a = "question"  -> answer
               [] a = "portfolio" -> portfolioAnalysis

\* set<Result>(prev => prev + v): the new value appended to the shown one
SetResult_Appends(a, v) ==
    /\ summary' = IF a = "summary" THEN summary \o v ELSE summary
    /\ answer' = IF a = "question" THEN answer \o v ELSE answer
    /\ portfolioAnalysis' = IF a = "portfolio" THEN portfolioAnalysis \o v
                            ELSE portfolioAnalysis

\* every handler calling setSummary
SetResult_IntoSummary(a, v) ==
    /\ summary' = v
    /\ UNCHANGED <<answer, portfolioAnalysis>>

\* set<Result>(v) of action a
SetResult(a, v) ==
    /\ summary' = IF a = "summary" THEN v ELSE summary
    /\ answer' = IF a = "question" THEN v ELSE answer
    /\ portfolioAnalysis' = IF a = "portfolio" THEN v ELSE portfolioAnalysis

\* the continuation without its finally block
FetchSettled_NoFinally(t, r) ==
    LET out == fetchData(r) IN
    /\ t \in Pending
    /\ t.stage = "fetch"
    /\ tasks' = Remove(t)
    /\ IF out.threw
       THEN /\ error' = OrElse(out.message, FallbackMessage(t.action))
            /\ UNCHANGED results
       ELSE IF out.data.type = "null"
       THEN /\ error' = OrElse(NullReadMessage(t.action), FallbackMessage(t.action))
            /\ UNCHANGED results
       ELSE /\ SetResult(t.action, ReadField(t.action, out.data))
            /\ UNCHANGED error
    /\ UNCHANGED <<inputs, loading>>

\* the continuation sending the same call again when fetchData threw
FetchSettled_Retries(t, r) ==
    LET out == fetchData(r) IN
    /\ t \in Pending
    /\ t.stage = "fetch"
    /\ tasks' = IF out.threw THEN tasks ELSE Remove(t)
    /\ IF out.threw
       THEN /\ error' = OrElse(out.message, FallbackMessage(t.action))
            /\ UNCHANGED results
       ELSE IF out.data.type = "null"
       THEN /\ error' = OrElse(NullReadMessage(t.action), FallbackMessage(t.action))
            /\ UNCHANGED results
       ELSE /\ SetResult(t.action, ReadField(t.action, out.data))
            /\ UNCHANGED error
    /\ loading' = FALSE
    /\ UNCHANGED inputs

\* the continuation treating a payload without the field as a failure
FetchSettled_ValidatesField(t, r) ==
    LET out == fetchData(r) IN
    /\ t \in Pending
    /\ t.stage = "fetch"
    /\ tasks' = Remove(t)
    /\ IF out.threw
       THEN /\ error' = OrElse(out.message, FallbackMessage(t.action))
            /\ UNCHANGED results
       ELSE IF out.data.type = "null"
       THEN /\ error' = OrElse(NullReadMessage(t.action), FallbackMessage(t.action))
            /\ UNCHANGED results
       ELSE IF ReadField(t.action, out.data) = UNDEFINED
       THEN /\ error' = FallbackMessage(t.action)
            /\ UNCHANGED results
       ELSE /\ SetResult(t.action, ReadField(t.action, out.data))
            /\ UNCHANGED error
    /\ loading' = FALSE
    /\ UNCHANGED inputs

\* try { data = await fetchData(..); set<Result>(data.<field>) }
\* catch (err) { setError(err.message || fallback) }
\* finally { setLoading(false) }
\* t is the settled fetch, r what the network did with it
FetchSettled(t, r) ==
    LET out == fetchData(r) IN
    /\ t \in Pending
    /\ t.stage = "fetch"
    /\ tasks' = Remove(t)
    /\ IF out.threw
       THEN /\ error' = OrElse(out.message, FallbackMessage(t.action))
            /\ UNCHANGED results
       ELSE IF out.data.type = "null"
       THEN /\ error' = OrElse(NullReadMessage(t.action), FallbackMessage(t.action))
            /\ UNCHANGED results
       ELSE /\ SetResult(t.action, ReadField(t.action, out.data))
            /\ UNCHANGED error
    /\ loading' = FALSE
    /\ UNCHANGED inputs

\* reader.onload posting the file's name in place of the text read
ReaderOnload_SendsFileName(t, result) ==
    /\ t \in Pending
    /\ t.stage = "read"
    /\ IF result # UNDEFINED
       THEN /\ tasks' = Remove(t) (+) SetToBag({FetchTask("portfolio",
                            FetchCall("/portfolio/analyze", "POST",
                                      Stringify("csvData", t.file)))})
            /\ UNCHANGED <<error, loading>>
       ELSE /\ tasks' = Remove(t)
            /\ error' = "Error reading file"
            /\ loading' = FALSE
    /\ UNCHANGED <<inputs, results>>

\* reader.onload up to its await: result is the text read, or UNDEFINED
\* when e.target?.result is not a string
ReaderOnload(t, result) ==
    /\ t \in Pending
    /\ t.stage = "read"
    /\ IF result # UNDEFINED
       THEN /\ tasks' = Remove(t) (+) SetToBag({FetchTask("portfolio",
                            FetchCall("/portfolio/analyze", "POST",
                                      Stringify("csvData", result)))})
            /\ UNCHANGED <<error, loading>>
       ELSE /\ tasks' = Remove(t)
            /\ error' = "Error reading file"
            /\ loading' = FALSE
    /\ UNCHANGED <<inputs, results>>

\* reader.onerror without its setLoading(false)
ReaderOnerror_KeepsLoading(t) ==
    /\ t \in Pending
    /\ t.stage = "read"
    /\ tasks' = Remove(t)
    /\ error' = "Failed to read the file."
    /\ UNCHANGED <<inputs, results, loading>>

ReaderOnerror(t) ==
    /\ t \in Pending
    /\ t.stage = "read"
    /\ tasks' = Remove(t)
    /\ error' = "Failed to read the file."
    /\ loading' = FALSE
    /\ UNCHANGED <<inputs, results>>

-----------------------------------------------------------------------------
(* Events *)

FetchSettles == \E t \in Pending : \E r \in Responses(t.action) : FetchSettled(t, r)
ReadLoads    == \E t \in Pending : \E result \in {FileContent(t.file), UNDEFINED} :
                    ReaderOnload(t, result)
ReadFails    == \E t \in Pending : ReaderOnerror(t)

\* the rendered controls: each carries disabled={loading}
ChangeTicker   == loading = FALSE /\ \E v \in Tickers : setTicker(v)
ChangeQuestion == loading = FALSE /\ \E v \in Questions : setQuestion(v)
ChangeFile     == loading = FALSE /\ \E f \in Files \cup {NULL} : handleFileChange(f)
ClickGetSummary       == loading = FALSE /\ getSummary
\* the Get Answer button without disabled={loading}
ClickGetAnswer_NeverDisabled == askQuestion

ClickGetAnswer        == loading = FALSE /\ askQuestion
ClickAnalyzePortfolio == loading = FALSE /\ handlePortfolioUpload

Next ==
    \/ ChangeTicker
    \/ ChangeQuestion
    \/ ChangeFile
    \/ ClickGetSummary
    \/ ClickGetAnswer
    \/ ClickAnalyzePortfolio
    \/ FetchSettles
    \/ ReadLoads
    \/ ReadFails

\* a fetch eventually settles and a file read eventually loads or fails
Fairness == WF_vars(FetchSettles) /\ WF_vars(ReadLoads \/ ReadFails)

FairSpec == Init /\ [][Next]_vars /\ Fairness

Spec == Init /\ [][Next]_vars

\* the handlers and setters called whatever loading is
CallSetTicker        == \E v \in Tickers : setTicker(v)
CallSetQuestion      == \E v \in Questions : setQuestion(v)
CallHandleFileChange == \E f \in Files \cup {NULL} : handleFileChange(f)

NextHandlers ==
    \/ CallSetTicker
    \/ CallSetQuestion
    \/ CallHandleFileChange
    \/ getSummary
    \/ askQuestion
    \/ handlePortfolioUpload
    \/ FetchSettles
    \/ ReadLoads
    \/ ReadFails

SpecHandlers == Init /\ [][NextHandlers]_vars

TypeOK ==
    /\ ticker \in Tickers
    /\ question \in Questions
    /\ portfolioFile \in Files \cup {NULL}
    /\ loading \in BOOLEAN
    /\ InFlight <= MaxInFlight

-----------------------------------------------------------------------------
(* Vocabulary of the properties *)

\* the input an action's guard tests
Input(a) == CASE a = "summary"   -> ticker
              [] a = "question"  -> question
              [] a = "portfolio" -> portfolioFile

\* a submission of action a through its button
Click(a) == CASE a = "summary"   -> ClickGetSummary
              [] a = "question"  -> ClickGetAnswer
              [] a = "portfolio" -> ClickAnalyzePortfolio

\* empty, whitespace-only, or no file
IsBlank(v) == v \in {"", " ", NULL}

FetchesPending == {t \in Pending : t.stage = "fetch"}
ReadsPending   == {t \in Pending : t.stage = "read"}

\* r is a 2xx answer whose body decodes to a JSON object carrying a's field
IsSuccess(a, r) ==
    /\ r.kind = "response"
    /\ ResponseOk(r.status)
    /\ r.wellFormed
    /\ r.json.type = "object"
    /\ r.json.fields[FieldOf(a)] # UNDEFINED

\* r is an answer with a status outside 200..299
IsNon2xx(r) == r.kind = "response" /\ (r.status < 200 \/ r.status > 299)

-----------------------------------------------------------------------------
\* C1: a submission of any of the three actions whose required input is
\* empty, whitespace-only or (for the upload) no file starts no fetch and no
\* file read, sets that action's guard message, and leaves loading false.
C1_BlankInputIsRejected ==
    [][\A a \in Actions :
         (Click(a) /\ IsBlank(Input(a))) =>
             /\ tasks' = tasks
             /\ error' = GuardMessage(a)
             /\ loading' = FALSE]_vars

\* C2: when the fetch of an action settles with a 2xx status and a JSON
\* object carrying the action's field, the action's result is exactly that
\* field's value, error is null and loading is false.
C2_SuccessPopulatesResult ==
    [][\A t \in FetchesPending : \A r \in Responses(t.action) :
         (FetchSettled(t, r) /\ IsSuccess(t.action, r)) =>
             /\ Result(t.action)' = r.json.fields[FieldOf(t.action)]
             /\ error' = NULL
             /\ loading' = FALSE]_vars

\* all three actions have succeeded with a non-empty payload
C2_Witness ==
    /\ summary = "Apple Inc. overview..."
    /\ answer = "A bond is a loan."
    /\ portfolioAnalysis = "Diversification score: 7/10"
    /\ error = NULL
    /\ loading = FALSE
    /\ tasks = EmptyBag

\* C3: when the fetch of an action settles with a status outside 200..299,
\* the action's result is empty, error is a non-empty string and loading is
\* false.
C3_Non2xxClearsResultSetsError ==
    [][\A t \in FetchesPending : \A r \in Responses(t.action) :
         (FetchSettled(t, r) /\ IsNon2xx(r)) =>
             /\ Result(t.action)' = ""
             /\ Truthy(error')
             /\ loading' = FALSE]_vars

\* a 500 has been answered to a section that showed no result, while another
\* section still shows its earlier result
C3_Witness ==
    /\ error = "HTTP Error! Status: 500"
    /\ answer = ""
    /\ summary = "Apple Inc. overview..."
    /\ loading = FALSE
    /\ tasks = EmptyBag

-----------------------------------------------------------------------------
\* a step in which a pending operation of action a completes for good:
\* its fetch settles, or its file read fails or yields no text
Completes(t) ==
    \/ \E r \in Responses(t.action) : FetchSettled(t, r)
    \/ ReaderOnload(t, UNDEFINED)
    \/ ReaderOnerror(t)

NoRequestInFlight(a) == \A t \in Pending : t.action # a

\* C4 as stated: whenever a section has no request in flight, its result
\* and an error message are never both present.
C4_ResultAndErrorNeverBoth ==
    \A a \in Actions :
        NoRequestInFlight(a) => ~(Truthy(Result(a)) /\ error # NULL)

\* C4 amended: in the state a completing request leaves, the section's
\* result and an error message are not both present.
C4_CompletionLeavesResultOrError ==
    [][\A t \in Pending :
         Completes(t) => ~(Truthy(Result(t.action)') /\ error' # NULL)]_vars

\* a section shows a result and nothing else is shown: its request completed
\* with success
C4_Witness ==
    /\ Truthy(summary)
    /\ error = NULL
    /\ loading = FALSE
    /\ tasks = EmptyBag
    /\ ~Truthy(answer)
    /\ ~Truthy(portfolioAnalysis)

-----------------------------------------------------------------------------
-----------------------------------------------------------------------------
\* messages only action a produces
OwnMessages(a) ==
    {GuardMessage(a), FallbackMessage(a)} \cup
    (IF a = "portfolio" THEN {"Error reading file", "Failed to read the file."}
     ELSE {})

\* a step of action a: a submission, or a continuation of one of its
\* pending operations
StepOf(a) ==
    \/ Click(a)
    \/ \E t \in Pending :
         /\ t.action = a
         /\ \/ \E r \in Responses(a) : FetchSettled(t, r)
            \/ \E result \in {FileContent(t.file), UNDEFINED} : ReaderOnload(t, result)
            \/ ReaderOnerror(t)

\* C6 as stated: an error message that belongs to one section is not
\* changed by a step of another section's action.
C6_ErrorChangedOnlyByOwnSection ==
    [][\A a \in Actions : \A b \in Actions \ {a} :
         (error \in OwnMessages(a) /\ StepOf(b)) => error' = error]_vars

\* C6 amended: error is one value for the three sections.  A guard-passing
\* submission of any action sets it to null whichever section's message it
\* holds, a guard-failing one overwrites it with its guard message, and the
\* input-change handlers leave it alone.
C6_ErrorIsShared ==
    [][/\ \A a \in Actions :
            Click(a) => error' = (IF Truthy(Input(a)) THEN NULL ELSE GuardMessage(a))
       /\ (ChangeTicker \/ ChangeQuestion \/ ChangeFile) => error' = error]_vars

\* a question is in flight right after its submission replaced the Summary
\* section's guard message (the ticker is still empty) by null
C6_Witness ==
    /\ \E t \in Pending : t.action = "question"
    /\ ticker = ""
    /\ summary = ""
    /\ error = NULL

-----------------------------------------------------------------------------
\* C7: whenever loading is true or an operation is pending, a state with
\* loading false and nothing pending follows, given that every fetch settles
\* and every file read loads or fails.
C7_LoadingEventuallyEnds ==
    (loading \/ InFlight > 0) ~> (loading = FALSE /\ InFlight = 0)

\* a submission has ended on a malformed 2xx body
C7_Witness ==
    /\ error = JsonSyntaxMessage
    /\ loading = FALSE
    /\ InFlight = 0

\* C8: when the file read of an upload fails (onerror) or yields no text,
\* the read ends with no fetch issued, error is 'Failed to read the file.'
\* respectively 'Error reading file', portfolioAnalysis is empty and loading
\* is false.
C8_ReadFailureIssuesNoCall ==
    [][\A t \in ReadsPending :
         /\ ReaderOnerror(t) =>
               /\ FetchesPending' = {}
               /\ error' = "Failed to read the file."
               /\ portfolioAnalysis' = ""
               /\ loading' = FALSE
         /\ ReaderOnload(t, UNDEFINED) =>
               /\ FetchesPending' = {}
               /\ error' = "Error reading file"
               /\ portfolioAnalysis' = ""
               /\ loading' = FALSE]_vars

\* the read of an upload has failed; the summary fetched earlier is still
\* shown
C8_Witness ==
    /\ error = "Failed to read the file."
    /\ portfolioAnalysis = ""
    /\ Truthy(summary)
    /\ loading = FALSE
    /\ tasks = EmptyBag

\* C9: a POST /portfolio/analyze appears among the pending operations only
\* in a step that takes the file read of that upload out of them, it carries
\* exactly the text of the file that was read, and loading is true as long
\* as the read or the call of an upload is pending.
C9_ReadThenCall ==
    /\ [](\A t \in Pending : t.action = "portfolio" => loading = TRUE)
    /\ [][\A u \in BagToSet(tasks') :
            (u.action = "portfolio" /\ u.stage = "fetch" /\ u \notin Pending) =>
                \E t \in ReadsPending :
                    /\ tasks' = Remove(t) (+) SetToBag({u})
                    /\ u.call.url = API_BASE_URL \o "/portfolio/analyze"
                    /\ u.call.method = "POST"
                    /\ u.call.body = Stringify("csvData", FileContent(t.file))]_vars

\* the call of an upload is pending with the text of portfolio.csv
C9_Witness ==
    /\ loading = TRUE
    /\ \E u \in FetchesPending :
         /\ u.action = "portfolio"
         /\ u.call.body = "{\"csvData\":\"AAPL,10\"}"

\* C10: a guard-passing submission sets loading true, the section's result
\* empty and error null and starts one operation; while that operation is
\* pending, loading is true, the section's result is empty and error is null.
C10_SubmissionClearsResultAndError ==
    /\ [](\A t \in Pending :
            loading = TRUE /\ Result(t.action) = "" /\ error = NULL)
    /\ [][\A a \in Actions :
            (Click(a) /\ Truthy(Input(a))) =>
                /\ loading' = TRUE
                /\ Result(a)' = ""
                /\ error' = NULL
                /\ \E t \in BagToSet(tasks') : t.action = a /\ tasks' = Add(t)]_vars

\* an upload is being read while the two other sections still show the
\* results of their earlier requests
C10_Witness ==
    /\ \E t \in ReadsPending : t.file = "portfolio.csv"
    /\ loading = TRUE
    /\ portfolioAnalysis = ""
    /\ error = NULL
    /\ Truthy(summary)
    /\ Truthy(answer)

-----------------------------------------------------------------------------
\* the 2xx answers whose body is a JSON object carrying a's field
SuccessResponses(a) ==
    [kind : {"response"}, message : {""},
     status : {s \in Statuses : s >= 200 /\ s <= 299},
     wellFormed : {TRUE}, json : {JsonObject(a, v) : v \in FieldValues(a)}]

\* C11: a successful call replaces the section's result by the payload's
\* field whatever the section showed before (also the result of an earlier,
\* identical call), so a result is always a value the backend sent and never
\* an accumulation of several.
C11_SuccessReplacesResult ==
    /\ [](\A a \in Actions : Result(a) \in FieldValues(a) \cup {UNDEFINED})
    /\ [][\A t \in FetchesPending :
            (tasks' = Remove(t) /\ error' = error) =>
                \A r \in SuccessResponses(t.action) :
                    FetchSettled(t, r) =>
                        Result(t.action)' = r.json.fields[FieldOf(t.action)]]_vars

\* the first of two identical calls has delivered its payload and the second
\* is still pending
C11_Witness ==
    /\ summary = "Apple Inc. overview..."
    /\ InFlight = 1
    /\ \E t \in FetchesPending :
         t.call = FetchCall("/summary/AAPL", "GET", NULL)

-----------------------------------------------------------------------------
\* the fetches pending after the step that were not pending before it
NewFetches == {u \in BagToSet(tasks') :
                  u.stage = "fetch" /\ CopiesIn(u, tasks') > CopiesIn(u, tasks)}

\* C12: requests are sent one per guard-passing submission at most, and a
\* settled request is never sent again.  Step by step: a guard-passing
\* submission of Summary or Question adds exactly one fetch, one of the
\* upload adds only a file read; a read that loads is replaced by at most
\* one fetch, a read that fails by none; a fetch that settles, whatever its
\* outcome, leaves the pending operations one fewer and sends nothing; no
\* other step sends anything.
C12_AtMostOneRequestPerSubmission ==
    [][/\ \A a \in Actions :
            Click(a) =>
                IF ~Truthy(Input(a)) THEN tasks' = tasks
                ELSE /\ InFlight' = InFlight + 1
                     /\ Cardinality(NewFetches) = (IF a = "portfolio" THEN 0 ELSE 1)
       /\ ReadLoads => (InFlight' <= InFlight /\ Cardinality(NewFetches) <= 1)
       /\ ReadFails => (InFlight' = InFlight - 1 /\ NewFetches = {})
       /\ FetchSettles => (InFlight' = InFlight - 1 /\ NewFetches = {})
       /\ (ChangeTicker \/ ChangeQuestion \/ ChangeFile) => tasks' = tasks]_vars

\* a request has failed and nothing is pending: it was not sent again
C12_Witness ==
    /\ error = "HTTP Error! Status: 500"
    /\ tasks = EmptyBag
    /\ ticker = "AAPL"
    /\ summary = ""
    /\ answer = ""
    /\ portfolioAnalysis = ""

-----------------------------------------------------------------------------
\* r is a failed call: the fetch was rejected, the status is outside
\* 200..299, or the body of a 2xx answer does not decode
IsFailure(r) ==
    \/ r.kind = "reject"
    \/ IsNon2xx(r)
    \/ (r.kind = "response" /\ ~r.wellFormed)

\* the message of the failure's cause
CauseMessage(r) ==
    IF r.kind = "reject" THEN r.message
    ELSE IF IsNon2xx(r) THEN "HTTP Error! Status: " \o ToString(r.status)
    ELSE JsonSyntaxMessage

\* C13: for every failed call fetchData throws instead of returning a
\* value, and the action ends with error = the cause's message, or the
\* action's fallback text when the cause has none, which is non-empty, with
\* the section's result empty, loading false and nothing pending, so that
\* every control is enabled again.
C13_FailureRecoveredAtAction ==
    [][\A t \in FetchesPending : \A r \in Responses(t.action) :
         IsFailure(r) =>
             /\ fetchData(r).threw
             /\ FetchSettled(t, r) =>
                   /\ error' = (IF CauseMessage(r) # "" THEN CauseMessage(r)
                                ELSE FallbackMessage(t.action))
                   /\ Truthy(error')
                   /\ Result(t.action)' = ""
                   /\ loading' = FALSE
                   /\ tasks' = EmptyBag]_vars

\* a question was rejected by the transport without a message and the
\* fallback text is shown; the summary fetched before is still there
C13_Witness ==
    /\ error = "Failed to get answer"
    /\ answer = ""
    /\ Truthy(summary)
    /\ loading = FALSE
    /\ tasks = EmptyBag

-----------------------------------------------------------------------------
\* the handler of action a, called directly
Handler(a) == CASE a = "summary"   -> getSummary
                [] a = "question"  -> askQuestion
                [] a = "portfolio" -> handlePortfolioUpload

\* the operation a guard-passing submission of a starts
NewOperation(a) ==
    CASE a = "summary"   -> FetchTask("summary",
                                FetchCall("/summary/" \o ticker, "GET", NULL))
      [] a = "question"  -> FetchTask("question",
                                FetchCall("/question", "POST",
                                          Stringify("question", question)))
      [] a = "portfolio" -> ReadTask(portfolioFile)

-----------------------------------------------------------------------------
\* a step of action a with the handlers called directly: the handler's
\* synchronous part, or a continuation of one of a's pending operations
\* (the operation leaves the pending ones, alone or replaced by its fetch)
HandlerStepOf(a) ==
    \/ Handler(a)
    \/ \E t \in Pending :
         /\ t.action = a
         /\ \/ tasks' = Remove(t)
            \/ \E u \in BagToSet(tasks') :
                 u.action = a /\ u.stage = "fetch" /\ t.stage = "read"
                 /\ tasks' = Remove(t) (+) SetToBag({u})

\* C15: a step of one action leaves the results of the two other sections
\* unchanged, on the guard-failure path, at submission and at completion,
\* whatever else is pending.
C15_ActionWritesOwnResultOnly ==
    [][\A a \in Actions :
         HandlerStepOf(a) =>
             \A b \in Actions \ {a} : Result(b)' = Result(b)]_vars

\* a question is pending: its submission emptied answer and left the two
\* other sections' results as they were
C15_Witness ==
    /\ \E t \in Pending : t.action = "question"
    /\ answer = ""
    /\ summary = "Apple Inc. overview..."
    /\ portfolioAnalysis = "Diversification score: 7/10"

-----------------------------------------------------------------------------
\* C16: with the actions triggered through the rendered controls, at most
\* one fetch or file read is pending, over the three sections together, and
\* loading is true while it is; no input value changes while one is pending.
C16_OneOperationAtATime ==
    /\ [](InFlight <= 1 /\ (InFlight = 1 => loading = TRUE))
    /\ [][InFlight > 0 => inputs' = inputs]_vars

\* one summary request is pending although the question and the file would
\* pass their guards as well
C16_Witness ==
    /\ InFlight = 1
    /\ \E t \in FetchesPending : t.action = "summary"
    /\ Truthy(question)
    /\ Truthy(portfolioFile)

-----------------------------------------------------------------------------
\* C17: a handler called with an empty input (or with no file) sets error to
\* its guard message and changes nothing else: the results of all three
\* sections, the inputs, loading and the pending operations stay as they
\* were.
C17_GuardFailureOnlySetsError ==
    [][\A a \in Actions :
         (Handler(a) /\ ~Truthy(Input(a))) =>
             /\ error' = GuardMessage(a)
             /\ results' = results
             /\ inputs' = inputs
             /\ loading' = loading
             /\ tasks' = tasks]_vars

\* Get Answer was called with an empty question while a summary request was
\* pending: the guard message is shown, the earlier answer is still there,
\* loading is still true and the request still pending
C17_Witness ==
    /\ error = "Please enter a question"
    /\ question = ""
    /\ answer = "A bond is a loan."
    /\ loading = TRUE
    /\ \E t \in FetchesPending : t.action = "summary"

-----------------------------------------------------------------------------
\* r is a 2xx answer whose body decodes to a JSON object without a's field
LacksField(a, r) ==
    /\ r.kind = "response"
    /\ ResponseOk(r.status)
    /\ r.wellFormed
    /\ r.json.type = "object"
    /\ r.json.fields[FieldOf(a)] = UNDEFINED

\* C18: when a fetch settles with a 2xx status and a JSON object that lacks
\* the action's field, the section's result becomes undefined (nothing is
\* shown), error stays null and loading is false: nothing reports the
\* missing field.
C18_MissingFieldIsSilent ==
    [][\A t \in FetchesPending : \A r \in Responses(t.action) :
         (FetchSettled(t, r) /\ LacksField(t.action, r)) =>
             /\ Result(t.action)' = UNDEFINED
             /\ ~Truthy(Result(t.action)')
             /\ error' = NULL
             /\ loading' = FALSE]_vars

\* an upload was answered with an object without analysis: no result, no
\* error, not loading
C18_Witness ==
    /\ portfolioAnalysis = UNDEFINED
    /\ error = NULL
    /\ loading = FALSE
    /\ tasks = EmptyBag

====
